---- MODULE Spec2Model ----
(***************************************************************************)
(* Model of the CDC file discovery (src/s3/s3_operator.rs, with its legacy *)
(* twin src/s3/s3_ops.rs) and of the SQL query builder                     *)
(* (src/postgres/table_query.rs).                                          *)
(*                                                                         *)
(* Strings are sequences of one-character strings, so that contains(),     *)
(* pop(), format!() and the timestamp parsers are computed character by    *)
(* character.  Option<T> and Result<T> are tagged records.                 *)
(***************************************************************************)
EXTENDS Integers, Sequences, FiniteSets, TLC

(***************************************************************************)
(* Bounds of the model.                                                    *)
(***************************************************************************)
\* largest number of objects the store lists for one table prefix
MaxObjects == 3
\* largest number of pages the store serves for one discovery call
MaxPages == 2

(***************************************************************************)
(* Option and Result.                                                      *)
(***************************************************************************)
None == [tag |-> "none"]
Some(v) == [tag |-> "some", val |-> v]
IsSome(o) == o.tag = "some"
IsNone(o) == o.tag = "none"

NoResult == [tag |-> "pending"]
Ok(v) == [tag |-> "ok", val |-> v]
Err(e) == [tag |-> "err", err |-> e]

(***************************************************************************)
(* Characters in ASCII order, and the byte-wise order of Rust strings.     *)
(***************************************************************************)
Ascii ==
  <<" ","'","(",")",",","-",".","/",
    "0","1","2","3","4","5","6","7","8","9",":",
    "A","B","C","D","E","F","G","H","I","J","K","L","M",
    "N","O","P","Q","R","S","T","U","V","W","X","Y","Z","_",
    "a","b","c","d","e","f","g","h","i","j","k","l","m",
    "n","o","p","q","r","s","t","u","v","w","x","y","z">>

Chars == {Ascii[i] : i \in 1..Len(Ascii)}

Ord == [c \in Chars |-> CHOOSE i \in 1..Len(Ascii) : Ascii[i] = c]

IsDigit(c) == Ord[c] >= Ord["0"] /\ Ord[c] <= Ord["9"]

DigitVal(c) == Ord[c] - Ord["0"]

DigitChar(d) == Ascii[Ord["0"] + d]

RECURSIVE StrLess(_, _)
\* a < b on str: lexicographic by byte, a proper prefix sorts first
StrLess(a, b) ==
  IF b = <<>> THEN FALSE
  ELSE IF a = <<>> THEN TRUE
  ELSE IF Head(a) = Head(b) THEN StrLess(Tail(a), Tail(b))
  ELSE Ord[Head(a)] < Ord[Head(b)]

\* str::contains(pat)
Contains(s, pat) ==
  \E i \in 1..(Len(s) - Len(pat) + 1) : SubSeq(s, i, i + Len(pat) - 1) = pat

\* the marker of a full-load (Snapshot) file
LOAD == <<"L","O","A","D">>

ContainsLOAD(file) == Contains(file, LOAD)

RECURSIVE Decimal(_)
\* format!("{}", n) for n >= 0
Decimal(n) ==
  IF n < 10 THEN <<DigitChar(n)>>
  ELSE Decimal(n \div 10) \o <<DigitChar(n % 10)>>

\* format!("{:02}", n) for n >= 0
Decimal02(n) == IF n < 10 THEN <<"0">> \o Decimal(n) ELSE Decimal(n)

(***************************************************************************)
(* Timestamps.  Both parsers are applied to strings of the configured form *)
(* YYYY-MM-DDTHH:MM:SSZ (or to strings that are not of that form); a       *)
(* DateTime is its number of seconds since the epoch.                      *)
(***************************************************************************)
RECURSIVE Number(_)
\* the value of a run of digits
Number(ds) ==
  IF ds = <<>> THEN 0
  ELSE Number(SubSeq(ds, 1, Len(ds) - 1)) * 10 + DigitVal(ds[Len(ds)])

AllDigits(s, from, to) == \A i \in from..to : IsDigit(s[i])

\* the layout %Y-%m-%dT%H:%M:%SZ with zero-padded fields
TimestampLayout(s) ==
  /\ Len(s) = 20
  /\ \A i \in 1..20 : s[i] \in Chars
  /\ AllDigits(s, 1, 4) /\ s[5] = "-"
  /\ AllDigits(s, 6, 7) /\ s[8] = "-"
  /\ AllDigits(s, 9, 10) /\ s[11] = "T"
  /\ AllDigits(s, 12, 13) /\ s[14] = ":"
  /\ AllDigits(s, 15, 16) /\ s[17] = ":"
  /\ AllDigits(s, 18, 19) /\ s[20] = "Z"

TimestampFields(s) ==
  [year   |-> Number(SubSeq(s, 1, 4)),
   month  |-> Number(SubSeq(s, 6, 7)),
   day    |-> Number(SubSeq(s, 9, 10)),
   hour   |-> Number(SubSeq(s, 12, 13)),
   minute |-> Number(SubSeq(s, 15, 16)),
   second |-> Number(SubSeq(s, 18, 19))]

IsLeapYear(y) == (y % 4 = 0 /\ y % 100 # 0) \/ y % 400 = 0

DaysInMonth(y, m) ==
  IF m = 2 THEN (IF IsLeapYear(y) THEN 29 ELSE 28)
  ELSE IF m \in {4, 6, 9, 11} THEN 30 ELSE 31

ValidDate(f) ==
  /\ f.month >= 1 /\ f.month <= 12
  /\ f.day >= 1 /\ f.day <= DaysInMonth(f.year, f.month)

\* days between 1970-01-01 and the civil date y-m-d
DaysFromCivil(y, m, d) ==
  LET yy  == IF m <= 2 THEN y - 1 ELSE y
      era == yy \div 400
      yoe == yy - era * 400
      mp  == IF m > 2 THEN m - 3 ELSE m + 9
      doy == (153 * mp + 2) \div 5 + d - 1
      doe == yoe * 365 + yoe \div 4 - yoe \div 100 + doy
  IN  era * 146097 + doe - 719468

\* NaiveDate::parse_from_str(s, "%Y-%m-%dT%H:%M:%SZ"): the time fields are
\* parsed and range-checked, then dropped
NaiveDateParse(s) ==
  IF ~TimestampLayout(s) THEN Err("ParseError")
  ELSE LET f == TimestampFields(s) IN
       IF ValidDate(f) /\ f.hour <= 23 /\ f.minute <= 59 /\ f.second <= 60
       THEN Ok([year |-> f.year, month |-> f.month, day |-> f.day])
       ELSE Err("ParseError")

\* DateTime::from_str(s, DateTimeFormat::DateTimeWithOffset)
DateTimeFromStr(s) ==
  IF ~TimestampLayout(s) THEN Err("ParseError")
  ELSE LET f == TimestampFields(s) IN
       IF ValidDate(f) /\ f.hour <= 23 /\ f.minute <= 59 /\ f.second <= 59
       THEN Ok(DaysFromCivil(f.year, f.month, f.day) * 86400
               + f.hour * 3600 + f.minute * 60 + f.second)
       ELSE Err("ParseError")

\* format!("{}/{}/{}/{}", s3_prefix, database_name, schema_name, table_name)
PrefixPath(s3_prefix, database_name, schema_name, table_name) ==
  s3_prefix \o <<"/">> \o database_name \o <<"/">> \o schema_name
            \o <<"/">> \o table_name

\* format!("{}/{}/{}/{}/", prefix_path, year, month, day)
StartDatePath(prefix_path, date) ==
  prefix_path \o <<"/">> \o Decimal(date.year) \o <<"/">>
              \o Decimal02(date.month) \o <<"/">> \o Decimal02(date.day)
              \o <<"/">>

\* Vec::rotate_right(k): the last k elements move to the front
RotateRight(v, k) ==
  SubSeq(v, Len(v) - k + 1, Len(v)) \o SubSeq(v, 1, Len(v) - k)

\* files_list.iter().filter(|s| s.contains("LOAD")).count()
LoadFilesCount(v) == Cardinality({i \in 1..Len(v) : ContainsLOAD(v[i])})

\* Qualifies with closed bounds (>= start, <= stop)
Qualifies_InclusiveBounds(object, start_date, stop_date) ==
  /\ IsSome(object.last_modified)
  /\ IF IsSome(stop_date)
     THEN \/ (object.last_modified.val >= start_date
              /\ object.last_modified.val <= stop_date.val)
          \/ ContainsLOAD(object.key)
     ELSE \/ object.last_modified.val >= start_date
          \/ ContainsLOAD(object.key)

\* the window test of one listed object: the branch taken depends on
\* whether stop_date is present
Qualifies(object, start_date, stop_date) ==
  /\ IsSome(object.last_modified)
  /\ IF IsSome(stop_date)
     THEN \/ (object.last_modified.val > start_date
              /\ object.last_modified.val < stop_date.val)
          \/ ContainsLOAD(object.key)
     ELSE \/ object.last_modified.val > start_date
          \/ ContainsLOAD(object.key)

RECURSIVE FilterContents(_, _, _)
\* the for-loop over one page's contents: the keys pushed, in order
FilterContents(contents, start_date, stop_date) ==
  IF contents = <<>> THEN <<>>
  ELSE (IF Qualifies(Head(contents), start_date, stop_date)
        THEN <<Head(contents).key>> ELSE <<>>)
       \o FilterContents(Tail(contents), start_date, stop_date)

(***************************************************************************)
(* The inputs the model draws from.                                        *)
(***************************************************************************)
\* "20240101T000000-0001.parquet"
KeyChange1 == <<"2","0","2","4","0","1","0","1","T","0","0","0","0","0","0","-","0","0","0","1",".","p","a","r","q","u","e","t">>
\* "20240102T000000-0002.parquet"
KeyChange2 == <<"2","0","2","4","0","1","0","2","T","0","0","0","0","0","0","-","0","0","0","2",".","p","a","r","q","u","e","t">>
\* "LOAD00000001.parquet"
KeyLoad1 == <<"L","O","A","D","0","0","0","0","0","0","0","1",".","p","a","r","q","u","e","t">>
\* "changes-0003.parquet": a Change key that sorts after the LOAD keys
KeyChange3 == <<"c","h","a","n","g","e","s","-","0","0","0","3",".","p","a","r","q","u","e","t">>

Keys == {KeyChange1, KeyChange2, KeyLoad1, KeyChange3}

\* "2024-01-01T00:00:00Z"
Date0101 == <<"2","0","2","4","-","0","1","-","0","1","T","0","0",":","0","0",":","0","0","Z">>
\* "2024-01-02T00:00:00Z"
Date0102 == <<"2","0","2","4","-","0","1","-","0","2","T","0","0",":","0","0",":","0","0","Z">>
\* "2024-01-03T00:00:00Z"
Date0103 == <<"2","0","2","4","-","0","1","-","0","3","T","0","0",":","0","0",":","0","0","Z">>
\* "2024-13-01T00:00:00Z": month out of range
DateBadMonth == <<"2","0","2","4","-","1","3","-","0","1","T","0","0",":","0","0",":","0","0","Z">>
\* "2024-01-01": no time of day
DateOnly == <<"2","0","2","4","-","0","1","-","0","1">>
\* "2024-01-03 00:00:00": not the configured form
DateNoZone == <<"2","0","2","4","-","0","1","-","0","3"," ","0","0",":","0","0",":","0","0">>

\* the <<start, stop>> pairs of the requests: three windows, and pairs with
\* a malformed start, a malformed stop, or both
Windows ==
  {<<Date0101, None>>, <<Date0101, Some(Date0103)>>, <<Date0102, None>>,
   <<DateBadMonth, None>>, <<DateOnly, Some(Date0103)>>,
   <<Date0101, Some(DateNoZone)>>, <<DateBadMonth, Some(DateNoZone)>>}

\* the last_modified values of listed objects: absent, or the instants
\* 2024-01-01, 2024-01-02 and 2024-01-03 at 00:00:00Z
LastModifiedValues ==
  {None} \cup {Some(DateTimeFromStr(d).val) : d \in {Date0101, Date0102, Date0103}}

\* "adhoc/file.parquet"
AdhocKey == <<"a","d","h","o","c","/","f","i","l","e",".","p","a","r","q","u","e","t">>

AbsolutePaths == {AdhocKey, KeyLoad1}

DateAware(bucket, prefix, database, schema, table, start, stop) ==
  [kind |-> "DateAware", bucket_name |-> bucket, s3_prefix |-> prefix,
   database_name |-> database, schema_name |-> schema, table_name |-> table,
   start_date |-> start, stop_date |-> stop]

AbsolutePath(path) == [kind |-> "AbsolutePath", path |-> path]

\* the table the calls of the sequential specification ask for
TablePayloads ==
  {DateAware(<<"b">>, <<"p">>, <<"d">>, <<"s">>, <<"t">>, w[1], w[2]) :
     w \in Windows}

Payloads == TablePayloads \cup {AbsolutePath(path) : path \in AbsolutePaths}

\* the prefix the listing requests for that table carry
TablePrefix == PrefixPath(<<"p">>, <<"d">>, <<"s">>, <<"t">>) \o <<"/">>

(***************************************************************************)
(* The object store.  A listing is what the store holds under one prefix   *)
(* behind the cursor, in ascending key order (the ListObjectsV2 contract); *)
(* the store is free to cut it into pages as it likes.                     *)
(***************************************************************************)
IsSorted(listing) ==
  \A i \in 1..(Len(listing) - 1) : StrLess(listing[i].key, listing[i + 1].key)

\* the objects of the key set ks with the last_modified values lm, sorted
SortedListing(ks, lm) ==
  [i \in 1..Cardinality(ks) |->
     LET k == CHOOSE k \in ks : Cardinality({j \in ks : StrLess(j, k)}) = i - 1
     IN  [key |-> k, last_modified |-> lm[k]]]

Listings ==
  UNION {{SortedListing(ks, lm) : lm \in [ks -> LastModifiedValues]} :
           ks \in {ks \in SUBSET Keys : Cardinality(ks) <= MaxObjects}}

Token(prefix, offset) == [prefix |-> prefix, offset |-> offset]

\* ListObjectsV2Output: contents and next_continuation_token
Response(contents, next) == [contents |-> contents, next_continuation_token |-> next]

\* the responses the store may give to a request, served pages so far
StoreResponses(st, request, served) ==
  LET listing == IF request.prefix \in DOMAIN st THEN st[request.prefix] ELSE <<>>
      from    == IF IsSome(request.continuation_token)
                 THEN request.continuation_token.val.offset ELSE 0
      last    == served + 1 >= MaxPages
  IN  UNION {
        LET page == SubSeq(listing, from + 1, from + n)
            more == Some(Token(request.prefix, from + n))
            contents == {Some(page)} \cup (IF n = 0 THEN {None} ELSE {})
            nexts == IF from + n < Len(listing) THEN {more}
                     ELSE IF last THEN {None} ELSE {None, more}
        IN  {Response(c, t) : c \in contents, t \in nexts} :
        n \in (IF last THEN {Len(listing) - from} ELSE 0..(Len(listing) - from))}

(***************************************************************************)
(* State.                                                                  *)
(***************************************************************************)
VARIABLES
  store,       \* prefix -> listing: the contents of the object store
  pc,          \* per call: "idle", "listing", "waiting", "done", "failed"
  payload,     \* per call: the LoadParquetFilesPayload it was given
  args,        \* per call: the arguments of get_files_from_s3_based_on_date
  files,       \* per call: the local `files`
  next_token,  \* per call: the local `next_token`
  requests,    \* per call: the listing requests sent so far
  responses,   \* per call: what the store answered to them, Ok(page) or Err
  result,      \* per call: what get_list_of_parquet_files_from_s3 returned
  tq,          \* the TableQuery being rendered, if any
  sql          \* its rendering by Display::fmt, if any

vars == <<store, pc, payload, args, files, next_token, requests, responses,
          result, tq, sql>>

Calls == DOMAIN pc

NoArgs == [tag |-> "none"]

\* no call has started; `cs` are the calls, `st` the store
InitWith(cs, st) ==
  /\ store = st
  /\ pc = [c \in cs |-> "idle"]
  /\ payload = [c \in cs |-> None]
  /\ args = [c \in cs |-> NoArgs]
  /\ files = [c \in cs |-> <<>>]
  /\ next_token = [c \in cs |-> None]
  /\ requests = [c \in cs |-> <<>>]
  /\ responses = [c \in cs |-> <<>>]
  /\ result = [c \in cs |-> NoResult]
  /\ tq = None
  /\ sql = None

Init == \E listing \in Listings : InitWith({1}, [p \in {TablePrefix} |-> listing])

(***************************************************************************)
(* get_list_of_parquet_files_from_s3                                       *)
(***************************************************************************)
\* DateAwareArgs with a stop that fails to parse taken as absent
DateAwareArgs_StopIgnored(p) ==
  LET iter_start_date == NaiveDateParse(p.start_date) IN
  IF iter_start_date.tag = "err" THEN iter_start_date
  ELSE
    LET prefix_path == PrefixPath(p.s3_prefix, p.database_name,
                                  p.schema_name, p.table_name)
        start_date_path == StartDatePath(prefix_path, iter_start_date.val)
        start_date == DateTimeFromStr(p.start_date)
    IN
    IF start_date.tag = "err" THEN start_date
    ELSE
      LET stop_date == IF IsNone(p.stop_date) THEN None
                       ELSE LET d == DateTimeFromStr(p.stop_date.val) IN
                            IF d.tag = "err" THEN None ELSE Some(d.val)
      IN
      Ok([bucket_name |-> p.bucket_name,
          start_date_path |-> start_date_path,
          prefix_path |-> prefix_path \o <<"/">>,
          start_date |-> start_date.val,
          stop_date |-> stop_date])

\* the code from the match up to the first listing request
DateAwareArgs(p) ==
  LET iter_start_date == NaiveDateParse(p.start_date) IN
  IF iter_start_date.tag = "err" THEN iter_start_date
  ELSE
    LET prefix_path == PrefixPath(p.s3_prefix, p.database_name,
                                  p.schema_name, p.table_name)
        start_date_path == StartDatePath(prefix_path, iter_start_date.val)
        start_date == DateTimeFromStr(p.start_date)
    IN
    IF start_date.tag = "err" THEN start_date
    ELSE
      LET stop_date == IF IsNone(p.stop_date) THEN Ok(None)
                       ELSE LET d == DateTimeFromStr(p.stop_date.val) IN
                            IF d.tag = "err" THEN d ELSE Ok(Some(d.val))
      IN
      IF stop_date.tag = "err" THEN stop_date
      ELSE Ok([bucket_name |-> p.bucket_name,
               start_date_path |-> start_date_path,
               prefix_path |-> prefix_path \o <<"/">>,
               start_date |-> start_date.val,
               stop_date |-> stop_date.val])

\* the rotation that follows the listing
RotateLoadFirst(files_list) == RotateRight(files_list, LoadFilesCount(files_list))

\* GetListAbsolutePath that lists the path as if it were a table prefix
GetListAbsolutePath_ViaListing(c, p) ==
  /\ pc[c] = "idle"
  /\ p.kind = "AbsolutePath"
  /\ payload' = [payload EXCEPT ![c] = Some(p)]
  /\ args' = [args EXCEPT ![c] =
               [bucket_name |-> <<>>, start_date_path |-> p.path,
                prefix_path |-> p.path, start_date |-> 0, stop_date |-> None]]
  /\ pc' = [pc EXCEPT ![c] = "listing"]
  /\ UNCHANGED <<store, files, next_token, requests, responses, result>>
  /\ UNCHANGED <<tq, sql>>

GetListAbsolutePath(c, p) ==
  /\ pc[c] = "idle"
  /\ p.kind = "AbsolutePath"
  /\ payload' = [payload EXCEPT ![c] = Some(p)]
  /\ result' = [result EXCEPT ![c] = Ok(<<p.path>>)]
  /\ pc' = [pc EXCEPT ![c] = "done"]
  /\ UNCHANGED <<store, args, files, next_token, requests, responses>>
  /\ UNCHANGED <<tq, sql>>

\* GetListDateAware that starts from the `files` and `next_token` the
\* previous call left behind, as if they were fields of the operator
GetListDateAware_KeepsState(c, p) ==
  /\ pc[c] = "idle"
  /\ p.kind = "DateAware"
  /\ payload' = [payload EXCEPT ![c] = Some(p)]
  /\ LET a == DateAwareArgs(p) IN
     IF a.tag = "err"
     THEN /\ result' = [result EXCEPT ![c] = a]
          /\ pc' = [pc EXCEPT ![c] = "failed"]
          /\ UNCHANGED <<args, files, next_token>>
     ELSE /\ args' = [args EXCEPT ![c] = a.val]
          /\ files' = [files EXCEPT ![c] =
                         IF c - 1 \in Calls THEN files[c - 1] ELSE <<>>]
          /\ next_token' = [next_token EXCEPT ![c] =
                              IF c - 1 \in Calls THEN next_token[c - 1] ELSE None]
          /\ pc' = [pc EXCEPT ![c] = "listing"]
          /\ UNCHANGED result
  /\ UNCHANGED <<store, requests, responses>>
  /\ UNCHANGED <<tq, sql>>

GetListDateAware(c, p) ==
  /\ pc[c] = "idle"
  /\ p.kind = "DateAware"
  /\ payload' = [payload EXCEPT ![c] = Some(p)]
  /\ LET a == DateAwareArgs(p) IN
     IF a.tag = "err"
     THEN /\ result' = [result EXCEPT ![c] = a]
          /\ pc' = [pc EXCEPT ![c] = "failed"]
          /\ UNCHANGED <<args, files, next_token>>
     ELSE /\ args' = [args EXCEPT ![c] = a.val]
          /\ files' = [files EXCEPT ![c] = <<>>]
          /\ next_token' = [next_token EXCEPT ![c] = None]
          /\ pc' = [pc EXCEPT ![c] = "listing"]
          /\ UNCHANGED result
  /\ UNCHANGED <<store, requests, responses>>
  /\ UNCHANGED <<tq, sql>>

(***************************************************************************)
(* get_files_from_s3_based_on_date                                         *)
(***************************************************************************)
ListRequest(a, token) ==
  [bucket |-> a.bucket_name, start_after |-> a.start_date_path,
   prefix |-> a.prefix_path, continuation_token |-> token]

\* SendListObjects whose request never carries the continuation token
SendListObjects_NoToken(c) ==
  /\ pc[c] = "listing"
  /\ requests' = [requests EXCEPT ![c] = Append(@, ListRequest(args[c], None))]
  /\ pc' = [pc EXCEPT ![c] = "waiting"]
  /\ UNCHANGED <<store, payload, args, files, next_token, responses, result>>
  /\ UNCHANGED <<tq, sql>>

\* top of the loop: build the request and send it
SendListObjects(c) ==
  /\ pc[c] = "listing"
  /\ requests' = [requests EXCEPT ![c] =
                    Append(@, ListRequest(args[c], next_token[c]))]
  /\ pc' = [pc EXCEPT ![c] = "waiting"]
  /\ UNCHANGED <<store, payload, args, files, next_token, responses, result>>
  /\ UNCHANGED <<tq, sql>>

\* FilesAfter with `files` declared inside the loop: only the page is kept
FilesAfter_PageOnly(fs, response, a) ==
  IF IsSome(response.contents)
  THEN FilterContents(response.contents.val, a.start_date, a.stop_date)
  ELSE <<>>

\* the files after one response has been filtered into them
FilesAfter(fs, response, a) ==
  IF IsSome(response.contents)
  THEN fs \o FilterContents(response.contents.val, a.start_date, a.stop_date)
  ELSE fs

\* RecvListObjects with `next_token` kept in the operator: the token of a
\* response becomes the token of every call in progress
RecvListObjects_SharedToken(c) ==
  /\ pc[c] = "waiting"
  /\ \E response \in StoreResponses(store, requests[c][Len(requests[c])],
                                    Len(responses[c])) :
       LET fs == FilesAfter(files[c], response, args[c]) IN
       /\ responses' = [responses EXCEPT ![c] = Append(@, Ok(response))]
       /\ next_token' = [d \in Calls |-> response.next_continuation_token]
       /\ files' = [files EXCEPT ![c] = fs]
       /\ IF IsNone(response.next_continuation_token)
          THEN /\ result' = [result EXCEPT ![c] = Ok(RotateLoadFirst(fs))]
               /\ pc' = [pc EXCEPT ![c] = "done"]
          ELSE /\ pc' = [pc EXCEPT ![c] = "listing"]
               /\ UNCHANGED result
  /\ UNCHANGED <<store, payload, args, requests>>
  /\ UNCHANGED <<tq, sql>>

\* the request succeeded: take the token, filter the page, loop or return
RecvListObjects(c) ==
  /\ pc[c] = "waiting"
  /\ \E response \in StoreResponses(store, requests[c][Len(requests[c])],
                                    Len(responses[c])) :
       LET fs == FilesAfter(files[c], response, args[c]) IN
       /\ responses' = [responses EXCEPT ![c] = Append(@, Ok(response))]
       /\ next_token' = [next_token EXCEPT ![c] = response.next_continuation_token]
       /\ files' = [files EXCEPT ![c] = fs]
       /\ IF IsNone(response.next_continuation_token)
          THEN /\ result' = [result EXCEPT ![c] = Ok(RotateLoadFirst(fs))]
               /\ pc' = [pc EXCEPT ![c] = "done"]
          ELSE /\ pc' = [pc EXCEPT ![c] = "listing"]
               /\ UNCHANGED result
  /\ UNCHANGED <<store, payload, args, requests>>
  /\ UNCHANGED <<tq, sql>>

\* RecvListObjectsError that ends the loop and returns the keys so far
RecvListObjectsError_PartialResult(c) ==
  /\ pc[c] = "waiting"
  /\ responses' = [responses EXCEPT ![c] = Append(@, Err("TransportError"))]
  /\ result' = [result EXCEPT ![c] = Ok(RotateLoadFirst(files[c]))]
  /\ pc' = [pc EXCEPT ![c] = "done"]
  /\ UNCHANGED <<store, payload, args, files, next_token, requests>>
  /\ UNCHANGED <<tq, sql>>

\* the request failed: `?` returns the error from both functions
RecvListObjectsError(c) ==
  /\ pc[c] = "waiting"
  /\ responses' = [responses EXCEPT ![c] = Append(@, Err("TransportError"))]
  /\ result' = [result EXCEPT ![c] = Err("TransportError")]
  /\ pc' = [pc EXCEPT ![c] = "failed"]
  /\ UNCHANGED <<store, payload, args, files, next_token, requests>>
  /\ UNCHANGED <<tq, sql>>

Next ==
  \/ \E c \in Calls : \E p \in Payloads : GetListAbsolutePath(c, p)
  \/ \E c \in Calls : \E p \in Payloads : GetListDateAware(c, p)
  \/ \E c \in Calls : SendListObjects(c)
  \/ \E c \in Calls : RecvListObjects(c)
  \/ \E c \in Calls : RecvListObjectsError(c)

Spec == Init /\ [][Next]_vars

(***************************************************************************)
(* The query builder: TableQuery and its Display implementation.  A        *)
(* variant's fields are positional (f0, f1, ...), as in the enum; an       *)
(* IndexMap is the sequence of its <<key, value>> entries in insertion     *)
(* order.                                                                  *)
(***************************************************************************)
\* largest number of columns of a rendered CREATE TABLE
MaxColumns == 2

FindPrimaryKey(f0, f1) == [variant |-> "FindPrimaryKey", f0 |-> f0, f1 |-> f1]

CreateTable(f0, f1, f2, f3) ==
  [variant |-> "CreateTable", f0 |-> f0, f1 |-> f1, f2 |-> f2, f3 |-> f3]

\* the text of the FindPrimaryKey template before '{}.{}'
FindPrimaryKeyHead ==
  <<"\n"," "," "," "," "," "," "," "," "," "," "," "," "," "," "," "," "," ",
    " "," "," ","S","E","L","E","C","T"," ","a",".","a","t","t","n","a","m",
    "e","\n"," "," "," "," "," "," "," "," "," "," "," "," "," "," "," "," ",
    " "," "," "," ","F","R","O","M"," "," "," ","p","g","_","i","n","d","e",
    "x"," ","i","\n"," "," "," "," "," "," "," "," "," "," "," "," "," "," ",
    " "," "," "," "," "," ","J","O","I","N"," "," "," ","p","g","_","a","t",
    "t","r","i","b","u","t","e"," ","a"," ","O","N"," ","a",".","a","t","t",
    "r","e","l","i","d"," ","="," ","i",".","i","n","d","r","e","l","i","d",
    "\n"," "," "," "," "," "," "," "," "," "," "," "," "," "," "," "," "," ",
    " "," "," ","A","N","D"," ","a",".","a","t","t","n","u","m"," ","="," ",
    "A","N","Y","(","i",".","i","n","d","k","e","y",")","\n"," "," "," "," ",
    " "," "," "," "," "," "," "," "," "," "," "," "," "," "," "," ","W","H",
    "E","R","E"," "," ","i",".","i","n","d","r","e","l","i","d"," ","="," ",
    "'">>

\* the text of the FindPrimaryKey template after '{}.{}'
FindPrimaryKeyTail ==
  <<"'",":",":","r","e","g","c","l","a","s","s","\n"," "," "," "," "," "," ",
    " "," "," "," "," "," "," "," "," "," "," "," "," "," ","A","N","D"," ",
    " "," "," ","i",".","i","n","d","i","s","p","r","i","m","a","r","y">>

\* FindPrimaryKey with the first field bound to the schema
DisplayFindPrimaryKey_SchemaFirst(q) ==
  LET schema == q.f0
      table == q.f1
  IN  FindPrimaryKeyHead \o schema \o <<".">> \o table \o FindPrimaryKeyTail

\* the arm `TableQuery::FindPrimaryKey(table, schema)`
DisplayFindPrimaryKey(q) ==
  LET table == q.f0
      schema == q.f1
  IN  FindPrimaryKeyHead \o schema \o <<".">> \o table \o FindPrimaryKeyTail

\* "CREATE TABLE IF NOT EXISTS "
CreateTableHead ==
  <<"C","R","E","A","T","E"," ","T","A","B","L","E"," ","I","F"," ","N","O",
    "T"," ","E","X","I","S","T","S"," ">>

\* "PRIMARY KEY"
PrimaryKeyWords == <<"P","R","I","M","A","R","Y"," ","K","E","Y">>

RECURSIVE PushColumns(_, _)
\* the for-loop: push "<column> <data_type>," for every entry
PushColumns(query, column_data_types) ==
  IF column_data_types = <<>> THEN query
  ELSE PushColumns(query \o Head(column_data_types)[1] \o <<" ">>
                         \o Head(column_data_types)[2] \o <<",">>,
                   Tail(column_data_types))

\* String::pop: drops the last character, if there is one
Pop(s) == IF s = <<>> THEN s ELSE SubSeq(s, 1, Len(s) - 1)

\* CreateTable without the pop() of the else branch
DisplayCreateTable_NoPop(q) ==
  LET schema == q.f0
      table == q.f1
      column_data_types == q.f2
      primary_key == q.f3
      query0 == CreateTableHead \o schema \o <<".">> \o table \o <<" ", "(">>
      query1 == PushColumns(query0, column_data_types)
      query2 == IF primary_key # <<>>
                THEN query1 \o PrimaryKeyWords \o <<" ", "(">> \o primary_key
                            \o <<")">>
                ELSE query1
  IN  query2 \o <<")">>

\* the arm `TableQuery::CreateTable(schema, table, column_data_types,
\* primary_key)`
DisplayCreateTable(q) ==
  LET schema == q.f0
      table == q.f1
      column_data_types == q.f2
      primary_key == q.f3
      query0 == CreateTableHead \o schema \o <<".">> \o table \o <<" ", "(">>
      query1 == PushColumns(query0, column_data_types)
      query2 == IF primary_key # <<>>
                THEN query1 \o PrimaryKeyWords \o <<" ", "(">> \o primary_key
                            \o <<")">>
                ELSE Pop(query1)
  IN  query2 \o <<")">>

\* the identifiers and column types the rendered queries are built from
SchemaNames == {<<"s">>, <<"s","c","h","e","m","a">>}
TableNames == {<<"t">>, <<"t","a","b","l","e">>}
ColumnNames == {<<"c","o","l","1">>, <<"c","o","l","2">>, <<"i","d">>}
ColumnTypes == {<<"v","a","r","c","h","a","r">>, <<"i","n","t">>}
\* "", "id" and "pk1,pk2"
PrimaryKeys == {<<>>, <<"i","d">>, <<"p","k","1",",","p","k","2">>}

\* the IndexMaps of at most MaxColumns entries: no column name twice
ColumnMaps ==
  UNION {{m \in [1..n -> ColumnNames \X ColumnTypes] :
            \A i, j \in 1..n : m[i][1] = m[j][1] => i = j} :
         n \in 0..MaxColumns}

\* FindPrimaryKey is built from any two identifiers, in either order
FindPrimaryKeyQueries ==
  {FindPrimaryKey(a, b) : a \in SchemaNames \cup TableNames,
                          b \in SchemaNames \cup TableNames}

CreateTableQueries ==
  {CreateTable(schema, <<"t">>, columns, primary_key) :
     schema \in SchemaNames, columns \in ColumnMaps,
     primary_key \in PrimaryKeys}

\* no discovery call exists, and no query has been rendered
InitQuery == InitWith({}, <<>>)

discoveryVars ==
  <<store, pc, payload, args, files, next_token, requests, responses, result>>

\* to_string() of a FindPrimaryKey value
RenderFindPrimaryKey(q) ==
  /\ IsNone(tq)
  /\ q.variant = "FindPrimaryKey"
  /\ tq' = Some(q)
  /\ sql' = Some(DisplayFindPrimaryKey(q))
  /\ UNCHANGED discoveryVars

\* to_string() of a CreateTable value
RenderCreateTable(q) ==
  /\ IsNone(tq)
  /\ q.variant = "CreateTable"
  /\ tq' = Some(q)
  /\ sql' = Some(DisplayCreateTable(q))
  /\ UNCHANGED discoveryVars

NextQuery ==
  \/ \E q \in FindPrimaryKeyQueries : RenderFindPrimaryKey(q)
  \/ \E q \in CreateTableQueries : RenderCreateTable(q)

SpecQuery == InitQuery /\ [][NextQuery]_vars

(***************************************************************************)
(* One table and one request: objects modified on 2024-01-02 or on         *)
(* 2024-01-03, listed for the window 2024-01-01 to 2024-01-03.             *)
(***************************************************************************)
DayKeys == {KeyLoad1, KeyChange1, KeyChange3}

DayLastModified ==
  {Some(DateTimeFromStr(Date0102).val), Some(DateTimeFromStr(Date0103).val)}

DayListings ==
  {l \in Listings :
     \A i \in 1..Len(l) : /\ l[i].key \in DayKeys
                          /\ l[i].last_modified \in DayLastModified}

DayPayload ==
  DateAware(<<"b">>, <<"p">>, <<"d">>, <<"s">>, <<"t">>, Date0101, Some(Date0103))

\* the first call of the request
FirstCall == GetListDateAware(1, DayPayload)

(***************************************************************************)
(* The loop under the scheduling of an awaited future: the body runs from  *)
(* one `.await` to the next, and an awaited `send()` that can resolve      *)
(* with a response does resolve.                                           *)
(***************************************************************************)
InitFair == \E listing \in DayListings : InitWith({1}, [p \in {TablePrefix} |-> listing])

NextFair ==
  \/ FirstCall
  \/ \E c \in Calls : SendListObjects(c)
  \/ \E c \in Calls : RecvListObjects(c)
  \/ \E c \in Calls : RecvListObjectsError(c)

SpecFair ==
  /\ InitFair
  /\ [][NextFair]_vars
  /\ WF_vars(\E c \in Calls : SendListObjects(c))
  /\ WF_vars(\E c \in Calls : RecvListObjects(c))

(***************************************************************************)
(* Replay: the same DateAware request is given to the operator twice, the  *)
(* second call starting once the first has returned (a list or an error),  *)
(* against the same store contents.                                        *)
(***************************************************************************)
Returned(c) == pc[c] \in {"done", "failed"}

InitReplay ==
  \E listing \in DayListings :
    InitWith({1, 2}, [p \in {TablePrefix} |-> listing])

\* the caller retries with the request it used before
ReplayCall == Returned(1) /\ GetListDateAware(2, payload[1].val)

NextReplay ==
  \/ FirstCall
  \/ ReplayCall
  \/ \E c \in Calls : SendListObjects(c)
  \/ \E c \in Calls : RecvListObjects(c)
  \/ \E c \in Calls : RecvListObjectsError(c)

SpecReplay == InitReplay /\ [][NextReplay]_vars

(***************************************************************************)
(* Concurrent calls: two tasks call the one operator, each for its own     *)
(* table, and are interleaved at every `.await` of the loop.               *)
(***************************************************************************)
\* call 1 discovers table t, call 2 table u
TableOf(c) == IF c = 1 THEN <<"t">> ELSE <<"u">>

PayloadOf(c) ==
  DateAware(<<"b">>, <<"p">>, <<"d">>, <<"s">>, TableOf(c), Date0101, Some(Date0103))

PrefixOf(c) == PrefixPath(<<"p">>, <<"d">>, <<"s">>, TableOf(c)) \o <<"/">>

\* the object names under each table
KeysOf(c) == IF c = 1 THEN {KeyLoad1, KeyChange1} ELSE {KeyChange2, KeyChange3}

ListingsOf(c) ==
  {l \in Listings :
     \A i \in 1..Len(l) : /\ l[i].key \in KeysOf(c)
                          /\ l[i].last_modified \in DayLastModified}

InitConcurrent ==
  \E l1 \in ListingsOf(1), l2 \in ListingsOf(2) :
    InitWith({1, 2}, [p \in {PrefixOf(1), PrefixOf(2)} |->
                        IF p = PrefixOf(1) THEN l1 ELSE l2])

NextConcurrent ==
  \/ \E c \in Calls : GetListDateAware(c, PayloadOf(c))
  \/ \E c \in Calls : SendListObjects(c)
  \/ \E c \in Calls : RecvListObjects(c)
  \/ \E c \in Calls : RecvListObjectsError(c)

SpecConcurrent == InitConcurrent /\ [][NextConcurrent]_vars

(***************************************************************************)
(* The legacy operator of s3_ops.rs: the same discovery with positional    *)
(* arguments.  Call 1 is the current operator; call 2 is the legacy one,   *)
(* given the arguments of call 1 and served the responses call 1 was       *)
(* served.                                                                 *)
(***************************************************************************)
Positional(bucket_name, s3_prefix, database_name, database_schema, table_name, start_date, stop_date) ==
  [kind |-> "Positional", bucket_name |-> bucket_name, s3_prefix |-> s3_prefix,
   database_name |-> database_name, database_schema |-> database_schema,
   table_name |-> table_name, start_date |-> start_date, stop_date |-> stop_date]

\* format!("{}/{}/{}/{}", s3_prefix, database_name, database_schema, table_name)
LegacyPrefixPath(s3_prefix, database_name, database_schema, table_name) ==
  s3_prefix \o <<"/">> \o database_name \o <<"/">> \o database_schema
            \o <<"/">> \o table_name

\* format!("{}/{}/{}/{}/", prefix_path, year, month, day)
LegacyStartDatePath(prefix_path, date) ==
  prefix_path \o <<"/">> \o Decimal(date.year) \o <<"/">>
              \o Decimal02(date.month) \o <<"/">> \o Decimal02(date.day)
              \o <<"/">>

\* LegacyArgs that passes prefix_path to the loop without the trailing "/"
LegacyArgs_PrefixNoSlash(a) ==
  LET prefix_path == LegacyPrefixPath(a.s3_prefix, a.database_name,
                                      a.database_schema, a.table_name)
      iter_start_date == NaiveDateParse(a.start_date)
  IN
  IF iter_start_date.tag = "err" THEN iter_start_date
  ELSE
    LET start_date_path == LegacyStartDatePath(prefix_path, iter_start_date.val)
        start_date == DateTimeFromStr(a.start_date)
    IN
    IF start_date.tag = "err" THEN start_date
    ELSE
      LET stop_date == IF IsNone(a.stop_date) THEN Ok(None)
                       ELSE LET d == DateTimeFromStr(a.stop_date.val) IN
                            IF d.tag = "err" THEN d ELSE Ok(Some(d.val))
      IN
      IF stop_date.tag = "err" THEN stop_date
      ELSE Ok([bucket_name |-> a.bucket_name,
               start_date_path |-> start_date_path,
               prefix_path |-> prefix_path,
               start_date |-> start_date.val,
               stop_date |-> stop_date.val])

\* the arguments of the legacy get_files_from_s3_based_on_date, or the
\* error of the first `?` that fails
LegacyArgs(a) ==
  LET prefix_path == LegacyPrefixPath(a.s3_prefix, a.database_name,
                                      a.database_schema, a.table_name)
      iter_start_date == NaiveDateParse(a.start_date)
  IN
  IF iter_start_date.tag = "err" THEN iter_start_date
  ELSE
    LET start_date_path == LegacyStartDatePath(prefix_path, iter_start_date.val)
        start_date == DateTimeFromStr(a.start_date)
    IN
    IF start_date.tag = "err" THEN start_date
    ELSE
      LET stop_date == IF IsNone(a.stop_date) THEN Ok(None)
                       ELSE LET d == DateTimeFromStr(a.stop_date.val) IN
                            IF d.tag = "err" THEN d ELSE Ok(Some(d.val))
      IN
      IF stop_date.tag = "err" THEN stop_date
      ELSE Ok([bucket_name |-> a.bucket_name,
               start_date_path |-> start_date_path,
               prefix_path |-> prefix_path \o <<"/">>,
               start_date |-> start_date.val,
               stop_date |-> stop_date.val])

\* the legacy window test of one listed object
LegacyQualifies(object, start_date, stop_date) ==
  /\ IsSome(object.last_modified)
  /\ IF IsSome(stop_date)
     THEN \/ (object.last_modified.val > start_date
              /\ object.last_modified.val < stop_date.val)
          \/ ContainsLOAD(object.key)
     ELSE \/ object.last_modified.val > start_date
          \/ ContainsLOAD(object.key)

RECURSIVE LegacyFilterContents(_, _, _)
\* the legacy for-loop over one page's contents
LegacyFilterContents(contents, start_date, stop_date) ==
  IF contents = <<>> THEN <<>>
  ELSE (IF LegacyQualifies(Head(contents), start_date, stop_date)
        THEN <<Head(contents).key>> ELSE <<>>)
       \o LegacyFilterContents(Tail(contents), start_date, stop_date)

\* the legacy rotation that follows the listing
LegacyRotateLoadFirst(files_list) ==
  RotateRight(files_list, LoadFilesCount(files_list))

\* legacy get_list_of_parquet_files_from_s3, up to the call of the loop
LegacyGetList(c, a) ==
  /\ pc[c] = "idle"
  /\ payload' = [payload EXCEPT ![c] = Some(a)]
  /\ LET r == LegacyArgs(a) IN
     IF r.tag = "err"
     THEN /\ result' = [result EXCEPT ![c] = r]
          /\ pc' = [pc EXCEPT ![c] = "failed"]
          /\ UNCHANGED <<args, files, next_token>>
     ELSE /\ args' = [args EXCEPT ![c] = r.val]
          /\ files' = [files EXCEPT ![c] = <<>>]
          /\ next_token' = [next_token EXCEPT ![c] = None]
          /\ pc' = [pc EXCEPT ![c] = "listing"]
          /\ UNCHANGED result
  /\ UNCHANGED <<store, requests, responses>>
  /\ UNCHANGED <<tq, sql>>

\* top of the legacy loop: build the request and send it
LegacySendListObjects(c) ==
  /\ pc[c] = "listing"
  /\ requests' = [requests EXCEPT ![c] =
                    Append(@, [bucket |-> args[c].bucket_name,
                               start_after |-> args[c].start_date_path,
                               prefix |-> args[c].prefix_path,
                               continuation_token |-> next_token[c]])]
  /\ pc' = [pc EXCEPT ![c] = "waiting"]
  /\ UNCHANGED <<store, payload, args, files, next_token, responses, result>>
  /\ UNCHANGED <<tq, sql>>

\* what the request in flight of call c is answered with: what call 1 was
\* answered to the same request at the same position, and anything the
\* store can answer to a request call 1 did not make there
SameResponses(c) ==
  LET i == Len(requests[c]) IN
  IF i <= Len(responses[1]) /\ requests[c][i] = requests[1][i]
  THEN {responses[1][i]}
  ELSE {Ok(r) : r \in StoreResponses(store, requests[c][i], Len(responses[c]))}
       \cup {Err("TransportError")}

\* the legacy request succeeded: take the token, filter the page, loop or
\* return
LegacyRecvListObjects(c) ==
  /\ pc[c] = "waiting"
  /\ \E r \in SameResponses(c) :
       /\ r.tag = "ok"
       /\ LET response == r.val
              fs == IF IsSome(response.contents)
                    THEN files[c] \o LegacyFilterContents(response.contents.val,
                                                          args[c].start_date,
                                                          args[c].stop_date)
                    ELSE files[c]
          IN
          /\ responses' = [responses EXCEPT ![c] = Append(@, r)]
          /\ next_token' = [next_token EXCEPT ![c] = response.next_continuation_token]
          /\ files' = [files EXCEPT ![c] = fs]
          /\ IF IsNone(response.next_continuation_token)
             THEN /\ result' = [result EXCEPT ![c] = Ok(LegacyRotateLoadFirst(fs))]
                  /\ pc' = [pc EXCEPT ![c] = "done"]
             ELSE /\ pc' = [pc EXCEPT ![c] = "listing"]
                  /\ UNCHANGED result
  /\ UNCHANGED <<store, payload, args, requests>>
  /\ UNCHANGED <<tq, sql>>

\* the legacy request failed: `?` returns the error
LegacyRecvListObjectsError(c) ==
  /\ pc[c] = "waiting"
  /\ \E r \in SameResponses(c) :
       /\ r.tag = "err"
       /\ responses' = [responses EXCEPT ![c] = Append(@, r)]
       /\ result' = [result EXCEPT ![c] = r]
  /\ pc' = [pc EXCEPT ![c] = "failed"]
  /\ UNCHANGED <<store, payload, args, files, next_token, requests>>
  /\ UNCHANGED <<tq, sql>>

\* the positional arguments that carry what the DateAware payload p carries
PositionalOf(p) ==
  Positional(p.bucket_name, p.s3_prefix, p.database_name, p.schema_name,
             p.table_name, p.start_date, p.stop_date)

InitLegacy ==
  \E listing \in DayListings :
    InitWith({1, 2}, [p \in {TablePrefix} |-> listing])

\* the current operator is called with any DateAware payload
CurrentCall == \E p \in TablePayloads : GetListDateAware(1, p)

\* the legacy operator is called with the arguments of the returned call
LegacyCall ==
  /\ Returned(1)
  /\ LegacyGetList(2, PositionalOf(payload[1].val))

NextLegacy ==
  \/ CurrentCall
  \/ SendListObjects(1)
  \/ RecvListObjects(1)
  \/ RecvListObjectsError(1)
  \/ LegacyCall
  \/ LegacySendListObjects(2)
  \/ LegacyRecvListObjects(2)
  \/ LegacyRecvListObjectsError(2)

SpecLegacy == InitLegacy /\ [][NextLegacy]_vars

(***************************************************************************)
(* Vocabulary of the properties.                                           *)
(***************************************************************************)
IsDateAware(c) == IsSome(payload[c]) /\ payload[c].val.kind = "DateAware"

IsAbsolutePath(c) == IsSome(payload[c]) /\ payload[c].val.kind = "AbsolutePath"

\* a DateAware call that returned a file list
Discovered(c) == IsDateAware(c) /\ pc[c] = "done"

\* what the store lists for the table of call c
ListingOf(c) ==
  LET p == payload[c].val
      prefix == PrefixPath(p.s3_prefix, p.database_name, p.schema_name,
                           p.table_name) \o <<"/">>
  IN  IF prefix \in DOMAIN store THEN store[prefix] ELSE <<>>

InSeq(x, v) == \E i \in 1..Len(v) : v[i] = x

IsSnapshotKey(k) == ContainsLOAD(k)
IsChangeKey(k) == ~ContainsLOAD(k)

SnapshotKeys(v) == SelectSeq(v, IsSnapshotKey)
ChangeKeys(v) == SelectSeq(v, IsChangeKey)

\* the timestamps of the inputs that are of the configured form
WellFormedDates == {Date0101, Date0102, Date0103}

Instant(d) == DateTimeFromStr(d).val

\* the request's window, from its strings
WindowStart(c) == Instant(payload[c].val.start_date)
WindowHasStop(c) == IsSome(payload[c].val.stop_date)
WindowStop(c) == Instant(payload[c].val.stop_date.val)

\* C1: a DateAware discovery over a listing in ascending key order returns
\* the Snapshot keys that passed the filter, in their listing order,
\* followed by the Change keys that passed it, in their listing order.
C1_SnapshotsThenChanges ==
  \A c \in Calls :
    (Discovered(c) /\ IsSorted(ListingOf(c)))
      => result[c] = Ok(SnapshotKeys(files[c]) \o ChangeKeys(files[c]))

\* C2: every Change key a DateAware discovery returns belongs to a listed
\* object whose last_modified is strictly after start and, when stop is
\* present, strictly before stop.
C2_ChangesInsideOpenWindow ==
  \A c \in Calls :
    Discovered(c) =>
      LET listing == ListingOf(c)
          start == WindowStart(c)
      IN
      \A i \in 1..Len(result[c].val) :
        IsChangeKey(result[c].val[i]) =>
          \E j \in 1..Len(listing) :
            /\ listing[j].key = result[c].val[i]
            /\ IsSome(listing[j].last_modified)
            /\ listing[j].last_modified.val > start
            /\ WindowHasStop(c) => listing[j].last_modified.val < WindowStop(c)

\* C2 witness: a window with both bounds; the listing holds Change objects
\* modified at start, inside the window and at stop; one is returned.
C2_Witness ==
  \E c \in Calls :
    /\ Discovered(c) /\ WindowHasStop(c)
    /\ \E i \in 1..Len(result[c].val) : IsChangeKey(result[c].val[i])
    /\ \E j \in 1..Len(ListingOf(c)) :
         /\ IsChangeKey(ListingOf(c)[j].key)
         /\ ListingOf(c)[j].last_modified = Some(WindowStart(c))
    /\ \E j \in 1..Len(ListingOf(c)) :
         /\ IsChangeKey(ListingOf(c)[j].key)
         /\ ListingOf(c)[j].last_modified = Some(WindowStop(c))

\* C3: every listed Snapshot object is in the result of a DateAware
\* discovery, whatever its last_modified is, also when it has none.
C3_SnapshotsAlwaysIncluded ==
  \A c \in Calls :
    Discovered(c) =>
      \A j \in 1..Len(ListingOf(c)) :
        IsSnapshotKey(ListingOf(c)[j].key)
          => InSeq(ListingOf(c)[j].key, result[c].val)

\* the listing of the end-to-end scenario, the LOAD object's last_modified
\* being left open
ScenarioListing(listing) ==
  /\ Len(listing) = 3
  /\ listing[1] = [key |-> KeyChange1, last_modified |-> Some(Instant(Date0101))]
  /\ listing[2] = [key |-> KeyChange2, last_modified |-> Some(Instant(Date0102))]
  /\ listing[3].key = KeyLoad1

\* C4: listing 20240101T000000-0001.parquet (2024-01-01T00:00:00Z),
\* 20240102T000000-0002.parquet (2024-01-02T00:00:00Z), LOAD00000001.parquet
\* with start 2024-01-01T00:00:00Z and no stop: discovery returns
\* [LOAD00000001.parquet, 20240102T000000-0002.parquet].
C4_EndToEndScenario ==
  \A c \in Calls :
    (/\ Discovered(c)
     /\ ScenarioListing(ListingOf(c))
     /\ payload[c].val.start_date = Date0101
     /\ IsNone(payload[c].val.stop_date))
      => result[c] = Ok(<<KeyLoad1, KeyChange2>>)

\* C5: an AbsolutePath(key) call returns [key]; it parses no timestamp,
\* sends no listing request, and neither filters nor rotates.
C5_AbsolutePathShortCircuits ==
  \A c \in Calls :
    IsAbsolutePath(c) =>
      /\ pc[c] = "done"
      /\ result[c] = Ok(<<payload[c].val.path>>)
      /\ requests[c] = <<>>
      /\ args[c] = NoArgs
      /\ files[c] = <<>>

\* C5 witness: the call was given a key that carries the LOAD marker.
C5_Witness ==
  \E c \in Calls :
    IsAbsolutePath(c) /\ pc[c] = "done" /\ ContainsLOAD(payload[c].val.path)

\* C6: when a listing request of a DateAware discovery fails, the call
\* returns the transport error and no file list, and cannot send another
\* listing request.
C6_ListingFailureAborts ==
  \A c \in Calls :
    (responses[c] # <<>> /\ responses[c][Len(responses[c])].tag = "err")
      => /\ pc[c] = "failed"
         /\ result[c] = Err("TransportError")
         /\ ~ENABLED SendListObjects(c)

\* C6 witness: a later page failed after keys had been accumulated.
C6_Witness ==
  \E c \in Calls :
    /\ Len(responses[c]) >= 2 /\ responses[c][Len(responses[c])].tag = "err"
    /\ files[c] # <<>>

\* C7: a DateAware call whose start, or whose present stop, is malformed
\* returns a parse error, with no listing request sent.
C7_MalformedTimestampFailsFast ==
  \A c \in Calls :
    (/\ IsDateAware(c)
     /\ \/ payload[c].val.start_date \notin WellFormedDates
        \/ /\ IsSome(payload[c].val.stop_date)
           /\ payload[c].val.stop_date.val \notin WellFormedDates)
      => /\ pc[c] = "failed"
         /\ result[c] = Err("ParseError")
         /\ requests[c] = <<>>

\* C7 witness: start is well-formed and only stop is malformed.
C7_Witness ==
  \E c \in Calls :
    /\ IsDateAware(c) /\ pc[c] = "failed"
    /\ payload[c].val.start_date \in WellFormedDates
    /\ IsSome(payload[c].val.stop_date)
    /\ payload[c].val.stop_date.val \notin WellFormedDates

\* C8: the result of a DateAware discovery is the one a single page holding
\* the whole listing gives, however the store cut the listing into pages.
C8_PagingIndependent ==
  \A c \in Calls :
    Discovered(c) =>
      result[c] = Ok(RotateLoadFirst(
                       FilterContents(ListingOf(c), WindowStart(c),
                                      IF WindowHasStop(c)
                                      THEN Some(WindowStop(c)) ELSE None)))

\* C8 witness: the listing came in two pages that both hold objects, and a
\* Snapshot key of the second page was rotated before a key of the first.
C8_Witness ==
  \E c \in Calls :
    /\ Discovered(c) /\ Len(responses[c]) = 2
    /\ \A i \in {1, 2} : /\ IsSome(responses[c][i].val.contents)
                          /\ responses[c][i].val.contents.val # <<>>
    /\ Len(result[c].val) >= 2
    /\ IsSnapshotKey(result[c].val[1])
    /\ result[c].val[1] # responses[c][1].val.contents.val[1].key
    /\ result[c].val[2] = responses[c][1].val.contents.val[1].key

Rendered(variant) == IsSome(tq) /\ tq.val.variant = variant /\ IsSome(sql)

RECURSIVE JoinColumns(_)
\* the "<col> <type>" pairs of a mapping, separated by single commas
JoinColumns(columns) ==
  IF columns = <<>> THEN <<>>
  ELSE Head(columns)[1] \o <<" ">> \o Head(columns)[2]
       \o (IF Len(columns) > 1 THEN <<",">> ELSE <<>>)
       \o JoinColumns(Tail(columns))

\* C9: CreateTable with a non-empty mapping renders
\* CREATE TABLE IF NOT EXISTS <schema>.<table> (<col> <type>,...
\* [,PRIMARY KEY (<pk>)]) with the pairs in insertion order; with an empty
\* primary key there is no PRIMARY KEY clause and no comma before the
\* closing parenthesis.
C9_CreateTableRendering ==
  (Rendered("CreateTable") /\ tq.val.f2 # <<>>) =>
    LET q == tq.val
        text == sql.val
    IN
    /\ text = CreateTableHead \o q.f0 \o <<".">> \o q.f1 \o <<" ", "(">>
              \o JoinColumns(q.f2)
              \o (IF q.f3 # <<>>
                  THEN <<",">> \o PrimaryKeyWords \o <<" ", "(">> \o q.f3
                       \o <<")">>
                  ELSE <<>>)
              \o <<")">>
    /\ q.f3 = <<>> => /\ ~Contains(text, PrimaryKeyWords)
                     /\ text[Len(text)] = ")"
                     /\ text[Len(text) - 1] # ","

\* C9 witness: two columns and an empty primary key have been rendered.
C9_Witness ==
  Rendered("CreateTable") /\ Len(tq.val.f2) = 2 /\ tq.val.f3 = <<>>

\* C10: FindPrimaryKey built with the schema first and the table second
\* renders the table reference '<schema>.<table>'::regclass.
C10_SchemaFirstOrder ==
  Rendered("FindPrimaryKey") =>
    Contains(sql.val, <<"'">> \o tq.val.f0 \o <<".">> \o tq.val.f1
                      \o <<"'",":",":","r","e","g","c","l","a","s","s">>)

\* C10 as amended: FindPrimaryKey takes the table first and the schema
\* second; its rendering has the second field before the dot and the first
\* after it, '<second>.<first>'::regclass.
C10_TableFirstOrder ==
  Rendered("FindPrimaryKey") =>
    Contains(sql.val, <<"'">> \o tq.val.f1 \o <<".">> \o tq.val.f0
                      \o <<"'",":",":","r","e","g","c","l","a","s","s">>)

\* C10 witness: FindPrimaryKey("table", "schema") has been rendered.
C10_Witness ==
  /\ Rendered("FindPrimaryKey")
  /\ tq.val.f0 = <<"t","a","b","l","e">>
  /\ tq.val.f1 = <<"s","c","h","e","m","a">>

\* C11: two DateAware calls with the same request, run one after the other
\* against unchanged store contents, return the same ordered list, also
\* when the earlier call was aborted by an error partway through its
\* pages: the later call starts without a token and returns what the
\* listing alone determines.
C11_ReplayIdentical ==
  \A c \in Calls :
    /\ requests[c] # <<>> => IsNone(requests[c][1].continuation_token)
    /\ Discovered(c) =>
         /\ result[c] = Ok(RotateLoadFirst(
                             FilterContents(ListingOf(c), WindowStart(c),
                                            IF WindowHasStop(c)
                                            THEN Some(WindowStop(c)) ELSE None)))
         /\ \A d \in Calls :
              (Discovered(d) /\ payload[d] = payload[c]) => result[d] = result[c]

\* C11 witness: the first call was aborted on its second page with keys
\* already accumulated; the replay then returned a list over two pages.
C11_Witness ==
  /\ Calls = {1, 2}
  /\ pc[1] = "failed" /\ Len(responses[1]) = 2 /\ files[1] # <<>>
  /\ Discovered(2) /\ Len(responses[2]) = 2 /\ result[2].val # <<>>

\* the listing requests and responses of call c follow the token protocol
PaginationProtocol(c) ==
  LET rq == requests[c]
      rs == responses[c]
      HasNext(i) == rs[i].tag = "ok" /\ IsSome(rs[i].val.next_continuation_token)
  IN
  /\ Len(rq) = Len(rs) + (IF pc[c] = "waiting" THEN 1 ELSE 0)
  /\ rq # <<>> => IsNone(rq[1].continuation_token)
  /\ \A i \in 2..Len(rq) :
       /\ HasNext(i - 1)
       /\ rq[i].continuation_token = rs[i - 1].val.next_continuation_token
       /\ rq[i].bucket = rq[1].bucket
       /\ rq[i].start_after = rq[1].start_after
       /\ rq[i].prefix = rq[1].prefix
  /\ \A i \in 1..Len(rs) :
       (rs[i].tag = "ok" /\ ~HasNext(i))
         => /\ i = Len(rs)
            /\ pc[c] = "done"
            /\ result[c].tag = "ok"
  /\ (IsDateAware(c) /\ pc[c] = "done")
       => /\ rs # <<>>
          /\ Len(rq) = Len(rs)
          /\ rs[Len(rs)].tag = "ok" /\ ~HasNext(Len(rs))

\* C12: in the pagination loop the first request carries no token, every
\* later request carries the token of the response before it, all requests
\* carry the same bucket, start_after and prefix, and the loop ends at the
\* first response without a token: n served pages are n requests, after
\* which the call has returned a result; a call that is listing
\* eventually returns.
C12_PaginationTerminates ==
  /\ [](\A c \in Calls : PaginationProtocol(c))
  /\ \A c \in {1} : (pc[c] = "listing") ~> (pc[c] \in {"done", "failed"})

\* C12 witness: a call served two pages made two requests, the second with
\* the token of the first response, and returned a list.
C12_Witness ==
  \E c \in Calls :
    /\ Discovered(c)
    /\ Len(requests[c]) = 2 /\ Len(responses[c]) = 2
    /\ IsSome(requests[c][2].continuation_token)
    /\ result[c].tag = "ok" /\ result[c].val # <<>>

\* the prefix the requests of call c carry, from its payload
OwnPrefix(c) ==
  LET p == payload[c].val
  IN  PrefixPath(p.s3_prefix, p.database_name, p.schema_name, p.table_name) \o <<"/">>

KeysIn(listing) == {listing[i].key : i \in 1..Len(listing)}

\* C13: when calls for different tables are interleaved at every page
\* fetch on one operator, each call returns the list it returns when run
\* alone, every request of a call carries the call's own prefix and either
\* no token or the token of the call's own preceding response, and no key
\* of another call's table is in its result.
C13_CallsIsolated ==
  \A c \in Calls :
    /\ \A i \in 1..Len(requests[c]) :
         LET t == requests[c][i].continuation_token IN
         /\ requests[c][i].prefix = OwnPrefix(c)
         /\ IF i = 1 THEN IsNone(t)
            ELSE /\ t = responses[c][i - 1].val.next_continuation_token
                 /\ IsSome(t) /\ t.val.prefix = OwnPrefix(c)
    /\ Discovered(c) =>
         /\ result[c] = Ok(RotateLoadFirst(
                             FilterContents(ListingOf(c), WindowStart(c),
                                            IF WindowHasStop(c)
                                            THEN Some(WindowStop(c)) ELSE None)))
         /\ \A d \in Calls \ {c} :
              IsDateAware(d) =>
                \A i \in 1..Len(result[c].val) :
                  result[c].val[i] \notin KeysIn(ListingOf(d))

\* C13 witness: call 1 has returned a list over two pages while call 2,
\* for the other table, holds keys of its first page and has its second
\* request in flight.
C13_Witness ==
  /\ Calls = {1, 2}
  /\ Discovered(1) /\ Len(responses[1]) = 2 /\ result[1].val # <<>>
  /\ IsDateAware(2) /\ OwnPrefix(2) # OwnPrefix(1)
  /\ pc[2] = "waiting" /\ Len(requests[2]) = 2 /\ files[2] # <<>>

IsLegacy(c) == IsSome(payload[c]) /\ payload[c].val.kind = "Positional"

\* call d is the legacy call for the bucket, prefix, database, schema,
\* table, start and stop of the DateAware call c
SameArguments(c, d) ==
  /\ IsDateAware(c) /\ IsLegacy(d)
  /\ payload[d].val.bucket_name = payload[c].val.bucket_name
  /\ payload[d].val.s3_prefix = payload[c].val.s3_prefix
  /\ payload[d].val.database_name = payload[c].val.database_name
  /\ payload[d].val.database_schema = payload[c].val.schema_name
  /\ payload[d].val.table_name = payload[c].val.table_name
  /\ payload[d].val.start_date = payload[c].val.start_date
  /\ payload[d].val.stop_date = payload[c].val.stop_date

\* C14: for the same bucket, prefix, database, schema, table, start and
\* stop and the same store responses, the legacy discovery issues the
\* listing requests the current discovery issued, in the same order with
\* the same prefix, start_after and tokens, and returns the same ordered
\* list, or both fail.
C14_LegacyEquivalent ==
  \A c, d \in Calls :
    SameArguments(c, d) =>
      /\ Len(requests[d]) <= Len(requests[c])
      /\ \A i \in 1..Len(requests[d]) : requests[d][i] = requests[c][i]
      /\ Returned(d) =>
           /\ requests[d] = requests[c]
           /\ pc[d] = pc[c]
           /\ result[d] = result[c]

\* C14 witness: the current and the legacy discovery both returned a list
\* after two pages.
C14_Witness ==
  /\ Calls = {1, 2}
  /\ SameArguments(1, 2)
  /\ Discovered(1) /\ pc[2] = "done"
  /\ Len(requests[1]) = 2 /\ Len(requests[2]) = 2
  /\ result[2].tag = "ok" /\ result[2].val # <<>>

====
